---- MODULE Spec2Model ----
(***************************************************************************)
(* Model of src/src/m365_automation/user_onboarding.py: the onboarding     *)
(* workflow of one record (UserOnboardingManager.onboard_user and the      *)
(* steps it awaits), the batch loop (process_csv) and main.                *)
(*                                                                         *)
(* The program is one asyncio task: every `await` on the Graph client or   *)
(* on asyncio.sleep is one action of the model, and the synchronous code   *)
(* that follows the await up to the next one is part of that action.  The  *)
(* outcome of each remote call (a result, an APIError, another exception)  *)
(* is chosen by the environment.  A remote call that answers with an error *)
(* is taken to have had no effect on the directory.                        *)
(*                                                                         *)
(* Python strings are opaque values here; upper(), strip(), split(';')     *)
(* and "'@' in s" are tabulated on the strings the inputs are drawn from.  *)
(***************************************************************************)
EXTENDS Integers, Sequences, FiniteSets, TLC

----------------------------------------------------------------------------
(* Bounds of the model                                                     *)

\* records in the input file
MaxRecords == 2

----------------------------------------------------------------------------
(* Program constants                                                       *)

max_retries == 3
initial_retry_delay == 2
settle_delay == 2
inter_record_delay == 1

\* Python's None, and the mark of a key that the row's dict does not hold
\* (csv.DictReader gives None to the columns a short row leaves out; a
\* column the header does not name is absent from the dict).
Null == "<None>"
Absent == "<absent>"

LICENSE_SKU_MAPPING ==
  [t \in {"E3", "E5", "INTUNE", "NONE"} |->
     CASE t = "E3" -> "SPE_E3"
       [] t = "E5" -> "SPE_E5"
       [] t = "INTUNE" -> "INTUNE_A_D"
       [] t = "NONE" -> Null]

----------------------------------------------------------------------------
(* Python string and dict operations on the strings of the model           *)

\* str.upper()
Upper(s) ==
  CASE s = "none" -> "NONE"
    [] s = "e3" -> "E3"
    [] s = "xx" -> "XX"
    [] OTHER -> s

\* str.strip()
Strip(s) ==
  CASE s = "g1; g2 " -> "g1; g2"
    [] s = " g2" -> "g2"
    [] s = " ;" -> ";"
    [] s = " " -> ""
    [] OTHER -> s

\* str.split(';')
SplitSemi(s) ==
  CASE s = "g1; g2" -> <<"g1", " g2">>
    [] s = "g1;g1" -> <<"g1", "g1">>
    [] s = ";" -> <<"", "">>
    [] OTHER -> <<s>>

\* '@' in s
HasAt(s) == s \in {"a@x.com", "b@x.com", "admin@x.com", "ghost@x.com"}

\* bool(v) of a string or None
Truthy(v) == v \notin {Null, Absent, ""}

\* dict.get(key, default): the default only when the key is absent
Get(d, k, default) == IF d[k] = Absent THEN default ELSE d[k]

\* dict.get(key)
Get1(d, k) == Get(d, k, Null)

\* results[k] = v on a dict
Put(f, k, v) == [x \in (DOMAIN f) \cup {k} |-> IF x = k THEN v ELSE f[x]]

EmptyDict == [x \in {} |-> FALSE]

\* [f(x) for x in xs if f(x)] with f = str.strip
RECURSIVE StripNonEmpty(_)
StripNonEmpty(xs) ==
  IF xs = <<>> THEN <<>>
  ELSE LET h == Strip(Head(xs))
       IN (IF h = "" THEN <<>> ELSE <<h>>) \o StripNonEmpty(Tail(xs))

----------------------------------------------------------------------------
(* Inputs: the rows of the CSV file, as csv.DictReader hands them over.    *)
(* department, job_title, display_name and mailbox_delegation only reach   *)
(* log lines and request bodies and are left out.                          *)

BaseRow ==
  [first_name |-> "Al", last_name |-> "Doe",
   user_principal_name |-> "a@x.com", license_type |-> "E3",
   manager_email |-> "", groups |-> ""]

Rows ==
  {BaseRow}
  \cup {[BaseRow EXCEPT !.first_name = ""]}
  \cup {[BaseRow EXCEPT !.user_principal_name = v] : v \in {"nox", "admin@x.com"}}
  \cup {[BaseRow EXCEPT !.license_type = v] : v \in {"none", "E5", "XX", Null}}
  \cup {[BaseRow EXCEPT !.manager_email = v] : v \in {"admin@x.com", "ghost@x.com"}}
  \cup {[BaseRow EXCEPT !.groups = v] : v \in {Null, Absent, "g1", "g1; g2 ", " ;"}}
  \cup {[BaseRow EXCEPT !.license_type = "NONE", !.groups = "g1;g1"]}
  \cup {[BaseRow EXCEPT !.user_principal_name = "b@x.com", !.license_type = "E5"]}
  \cup {[BaseRow EXCEPT !.first_name = "", !.user_principal_name = "nox",
                        !.license_type = "xx"]}
  \cup {[BaseRow EXCEPT !.last_name = Null, !.user_principal_name = Null,
                        !.license_type = Null, !.manager_email = Null,
                        !.groups = Null]}

\* What the tenant's subscribed_skus.get() may hold
TenantSkuSets == {{}, {"SPE_E3"}}

SkuId(part) ==
  CASE part = "SPE_E3" -> "sku-1"
    [] part = "SPE_E5" -> "sku-2"
    [] OTHER -> "sku-3"

\* The directory before the run: one account, not made by this batch
AdminAccount == [id |-> 0, upn |-> "admin@x.com"]

----------------------------------------------------------------------------
VARIABLES
  pc,               \* where the task is suspended
  sku_cache,        \* UserOnboardingManager.sku_cache
  directory,        \* the accounts of the remote directory
  users_data,       \* process_csv: list(reader)
  idx,              \* process_csv: index of the record in flight (1-based)
  result,           \* onboard_user: result
  errors,           \* validate_user_data: errors
  attempt,          \* assign_license: attempt
  retry_delay,      \* assign_license: retry_delay
  group_names,      \* add_to_groups: group_names
  gi,               \* add_to_groups: position in group_names (1-based)
  results,          \* add_to_groups: results
  calls,            \* the awaits of the workflow in flight, in order
  successful_users, \* process_csv: successful_users
  failed_users,     \* process_csv: failed_users
  raised,           \* the exception that left onboard_user, if any
  credentials_file, \* the rows of ./output/secure_credentials.csv
  probe             \* a call of a function on its own: arguments, locals, result

vars == <<pc, sku_cache, directory, users_data, idx, result, errors, attempt,
          retry_delay, group_names, gi, results, calls, successful_users,
          failed_users, raised, credentials_file, probe>>

locals == <<attempt, retry_delay, group_names, gi, results>>
batch == <<users_data, idx, successful_users, failed_users>>

user_data == users_data[idx]

NoResult ==
  [upn |-> Null, success |-> FALSE, user_created |-> FALSE,
   license_assigned |-> FALSE, groups_added |-> EmptyDict,
   mailbox_configured |-> FALSE, temp_password |-> Null, errors |-> <<>>]

\* One await: the operation, its integer argument (account id or seconds),
\* its string argument (group, principal or license name), and how it
\* ended: "ok", or the kind of failure.
Call(op, n, s, out) == [op |-> op, n |-> n, s |-> s, out |-> out]

OkOrError(ok) == IF ok THEN "ok" ELSE "exception"

\* onboard_user line 413: the id the directory gave to the account created
\* for the record in flight
user_id == idx

\* no function is called on its own
NoProbe == [fn |-> "none"]

Init ==
  /\ pc = "main"
  /\ sku_cache = [initialized |-> FALSE, map |-> EmptyDict]
  /\ directory = {AdminAccount}
  /\ users_data \in UNION {[1..n -> Rows] : n \in 0..MaxRecords}
  /\ idx = 0
  /\ result = NoResult
  /\ errors = <<>>
  /\ attempt = 0
  /\ retry_delay = 0
  /\ group_names = <<>>
  /\ gi = 0
  /\ results = EmptyDict
  /\ calls = <<>>
  /\ successful_users = <<>>
  /\ failed_users = <<>>
  /\ raised = Null
  /\ credentials_file = <<>>
  /\ probe = NoProbe

----------------------------------------------------------------------------
(* SKU resolver                                                            *)

\* get_sku_id: [raised, value]; `not self.sku_cache` is true of None and of
\* the empty dict alike.
get_sku_id_RaisesUnknown(cache, license_type) ==
  IF ~cache.initialized \/ DOMAIN cache.map = {}
  THEN [raised |-> TRUE, value |-> Null]
  ELSE IF Upper(license_type) = "NONE"
  THEN [raised |-> FALSE, value |-> Null]
  ELSE IF Upper(license_type) \notin DOMAIN LICENSE_SKU_MAPPING
  THEN [raised |-> TRUE, value |-> Null]
  ELSE LET sku_part_number == LICENSE_SKU_MAPPING[Upper(license_type)]
       IN IF sku_part_number \in DOMAIN cache.map
          THEN [raised |-> FALSE, value |-> cache.map[sku_part_number]]
          ELSE [raised |-> TRUE, value |-> Null]

get_sku_id(cache, license_type) ==
  IF ~cache.initialized \/ DOMAIN cache.map = {}
  THEN [raised |-> TRUE, value |-> Null]
  ELSE IF Upper(license_type) = "NONE"
  THEN [raised |-> FALSE, value |-> Null]
  ELSE IF Upper(license_type) \notin DOMAIN LICENSE_SKU_MAPPING
  THEN [raised |-> FALSE, value |-> Null]
  ELSE LET sku_part_number == LICENSE_SKU_MAPPING[Upper(license_type)]
       IN IF sku_part_number \in DOMAIN cache.map
          THEN [raised |-> FALSE, value |-> cache.map[sku_part_number]]
          ELSE [raised |-> FALSE, value |-> Null]

----------------------------------------------------------------------------
(* validate_user_data                                                      *)

required_fields == <<"first_name", "last_name", "user_principal_name", "license_type">>

MissingError(field) ==
  CASE field = "first_name" -> "Missing required field: first_name"
    [] field = "last_name" -> "Missing required field: last_name"
    [] field = "user_principal_name" -> "Missing required field: user_principal_name"
    [] field = "license_type" -> "Missing required field: license_type"

\* lines 124-136: the checks made before the first lookup
RECURSIVE RequiredErrors(_, _)
RequiredErrors(d, fields) ==
  IF fields = <<>> THEN <<>>
  ELSE (IF ~Truthy(Get1(d, Head(fields))) THEN <<MissingError(Head(fields))>> ELSE <<>>)
       \o RequiredErrors(d, Tail(fields))

LocalErrors(d) ==
  LET upn == Get(d, "user_principal_name", "")
  IN RequiredErrors(d, required_fields)
     \o (IF Truthy(upn) /\ ~HasAt(upn) THEN <<"Invalid UPN format">> ELSE <<>>)

\* lines 161-165: the license type check; .upper() of None raises
LicenseTypeRaises(d) == Get(d, "license_type", "") = Null

LicenseTypeErrors(d) ==
  IF Upper(Get(d, "license_type", "")) \notin DOMAIN LICENSE_SKU_MAPPING
  THEN <<"Invalid license type">> ELSE <<>>

----------------------------------------------------------------------------
(* Synchronous continuations: what runs from one await to the next.  Each  *)
(* sets pc, result, the locals, calls and raised; the action that uses it  *)
(* sets the rest.                                                          *)

\* onboard_user line 425
SetLicenseAssigned_Dropped(res, license_assigned) == res

SetLicenseAssigned(res, license_assigned) ==
  [res EXCEPT !.license_assigned = license_assigned]

\* onboard_user lines 452-453: an exception caught after the account was made
UnexpectedError_Silent(res) == res

UnexpectedError(res) ==
  [res EXCEPT !.errors = Append(@, "Unexpected error during onboarding")]

\* onboard_user lines 433-446, entered once the license step returned true
GroupsBegin(res, log) ==
  LET r1 == SetLicenseAssigned(res, TRUE)
      groups_raw == Get(user_data, "groups", "")
  IN /\ calls' = log
     /\ raised' = Null
     /\ attempt' = 0 /\ retry_delay' = 0
     /\ IF groups_raw = Null
        THEN \* .strip() of None: caught at line 452
             /\ result' = UnexpectedError(r1)
             /\ pc' = "done"
             /\ group_names' = <<>> /\ gi' = 0 /\ results' = EmptyDict
        ELSE LET groups_str == Strip(groups_raw)
                 names == StripNonEmpty(SplitSemi(groups_str))
             IN IF Truthy(groups_str) /\ names # <<>>
                THEN /\ result' = r1
                     /\ pc' = "group"
                     /\ group_names' = names /\ gi' = 1 /\ results' = EmptyDict
                ELSE \* no groups column, or add_to_groups([]) == {}
                     /\ result' = r1
                     /\ pc' = "mailbox"
                     /\ group_names' = <<>> /\ gi' = 0 /\ results' = EmptyDict

\* onboard_user lines 425-431 when assign_license returned false, up to the
\* await of the delete
LicenseFailed_NoRollback(res, log) ==
  /\ result' = [SetLicenseAssigned(res, FALSE) EXCEPT
                  !.errors = Append(@, "License assignment failed")]
  /\ pc' = "done"
  /\ calls' = log
  /\ raised' = Null
  /\ attempt' = 0 /\ retry_delay' = 0
  /\ group_names' = <<>> /\ gi' = 0 /\ results' = EmptyDict

LicenseFailed(res, log) ==
  /\ result' = [SetLicenseAssigned(res, FALSE) EXCEPT
                  !.errors = Append(@, "License assignment failed")]
  /\ pc' = "rollback"
  /\ calls' = log
  /\ raised' = Null
  /\ attempt' = 0 /\ retry_delay' = 0
  /\ group_names' = <<>> /\ gi' = 0 /\ results' = EmptyDict

\* assign_license lines 239-258: one pass of the loop up to the await of
\* the post
AttemptBegin_RetryUnresolved(res, log, att, delay) ==
  LET sku == get_sku_id(sku_cache, user_data.license_type)
      unresolved == sku.raised \/ ~Truthy(sku.value)
  IN IF unresolved /\ att >= max_retries - 1
     THEN LicenseFailed(res, log)
     ELSE /\ result' = res
          /\ pc' = IF unresolved THEN "backoff" ELSE "license"
          /\ calls' = log
          /\ raised' = Null
          /\ attempt' = att /\ retry_delay' = delay
          /\ group_names' = <<>> /\ gi' = 0 /\ results' = EmptyDict

AttemptBegin(res, log, att, delay) ==
  LET sku == get_sku_id(sku_cache, user_data.license_type)
  IN IF sku.raised \/ ~Truthy(sku.value)
     THEN LicenseFailed(res, log)
     ELSE /\ result' = res
          /\ pc' = "license"
          /\ calls' = log
          /\ raised' = Null
          /\ attempt' = att /\ retry_delay' = delay
          /\ group_names' = <<>> /\ gi' = 0 /\ results' = EmptyDict

\* assign_license lines 229-237
AssignLicenseBegin_CaseSensitive(res, log) ==
  IF user_data.license_type = "NONE"
  THEN GroupsBegin(res, log)
  ELSE AttemptBegin(res, log, 0, initial_retry_delay)

AssignLicenseBegin(res, log) ==
  IF Upper(user_data.license_type) = "NONE"
  THEN GroupsBegin(res, log)
  ELSE AttemptBegin(res, log, 0, initial_retry_delay)

\* validate_user_data line 167
is_valid_Always(errs) == TRUE

is_valid(errs) == Len(errs) = 0

\* validate_user_data lines 161-167 and onboard_user lines 399-406
ValidateFinish(errs, log) ==
  /\ calls' = log
  /\ attempt' = 0 /\ retry_delay' = 0
  /\ group_names' = <<>> /\ gi' = 0 /\ results' = EmptyDict
  /\ IF LicenseTypeRaises(user_data)
     THEN \* AttributeError leaves validate_user_data, onboard_user (the call
          \* is outside its try) and process_csv (re-raised at 507-509);
          \* main exits 1
          /\ raised' = "AttributeError"
          /\ pc' = "exit1"
          /\ result' = result
          /\ errors' = errs
     ELSE LET all == errs \o LicenseTypeErrors(user_data)
          IN /\ raised' = Null
             /\ errors' = all
             /\ IF ~is_valid(all)
                THEN /\ result' = [result EXCEPT !.errors = all]
                     /\ pc' = "done"
                ELSE /\ result' = result
                     /\ pc' = "create"

----------------------------------------------------------------------------
(* Actions: one per await                                                  *)

\* initialize_sku_cache lines 68-73: the cache built from the tenant's SKUs
BuildSkuCache(skus) == [initialized |-> TRUE, map |-> [p \in skus |-> SkuId(p)]]

\* process_csv lines 482-488: the file is read and the loop entered
ProcessCsvEntry ==
  IF Len(users_data) = 0
  THEN [pc |-> "returned", idx |-> idx]
  ELSE [pc |-> "onboard", idx |-> 1]

\* initialize_sku_cache lines 81-83 and main lines 601-604: the error of
\* the fetch is re-raised and main exits 1
AfterSkuFetchError_Swallowed ==
  IF Len(users_data) = 0
  THEN [pc |-> "returned", idx |-> idx]
  ELSE [pc |-> "onboard", idx |-> 1]

AfterSkuFetchError == [pc |-> "exit1", idx |-> idx]

\* main lines 557-569: initialize_sku_cache awaits subscribed_skus.get();
\* on success process_csv reads the file and enters its loop.
InitializeSkuCache ==
  /\ pc = "main"
  /\ \/ \E skus \in TenantSkuSets :
          /\ sku_cache' = BuildSkuCache(skus)
          /\ pc' = ProcessCsvEntry.pc /\ idx' = ProcessCsvEntry.idx
     \/ \* the fetch raises
        /\ sku_cache' = sku_cache
        /\ pc' = AfterSkuFetchError.pc /\ idx' = AfterSkuFetchError.idx
  /\ UNCHANGED <<probe, credentials_file, directory, users_data, result, errors, locals, calls,
                 successful_users, failed_users, raised>>

\* onboard_user lines 386-396 and validate_user_data lines 124-140, up to
\* the await of users.get()
OnboardStart ==
  /\ pc = "onboard"
  /\ result' = [NoResult EXCEPT !.upn = Get(user_data, "user_principal_name", "Unknown")]
  /\ errors' = LocalErrors(user_data)
  /\ calls' = <<>>
  /\ pc' = "v_dup"
  /\ UNCHANGED <<probe, credentials_file, sku_cache, directory, batch, locals, raised>>

\* validate_user_data lines 139-150: the duplicate lookup answers
ValidateDuplicateLookup ==
  /\ pc = "v_dup"
  /\ \E ok \in BOOLEAN :
       LET upn == Get(user_data, "user_principal_name", "")
           existing_upns == {u.upn : u \in directory}
           errs == IF ok /\ upn \in existing_upns
                   THEN Append(errors, "User already exists") ELSE errors
           log == Append(calls, Call("users.get", 0, "", OkOrError(ok)))
       IN IF Truthy(Get1(user_data, "manager_email"))
          THEN /\ errors' = errs
               /\ calls' = log
               /\ pc' = "v_mgr"
               /\ UNCHANGED <<result, locals, raised>>
          ELSE ValidateFinish(errs, log)
  /\ UNCHANGED <<probe, credentials_file, sku_cache, directory, batch>>

\* validate_user_data lines 151-159: the manager lookup answers
ValidateManagerLookup ==
  /\ pc = "v_mgr"
  /\ \E ok \in BOOLEAN :
       LET manager_email == Get1(user_data, "manager_email")
           found == \E u \in directory : u.upn = manager_email
           errs == IF ok /\ ~found
                   THEN Append(errors, "Manager not found") ELSE errors
       IN ValidateFinish(errs, Append(calls, Call("users.get(filter)", 0, manager_email,
                                                  OkOrError(ok))))
  /\ UNCHANGED <<probe, credentials_file, sku_cache, directory, batch>>

\* create_user line 179: the password drawn for one create call; every
\* call draws afresh, so the calls of a run are given distinct passwords
TempPassword(uid) ==
  CASE uid = 1 -> "temp-password-1"
    [] uid = 2 -> "temp-password-2"
    [] OTHER -> "temp-password-3"

\* onboard_user line 409: where a failed create_user leaves the workflow
CreateFailedPc_Rollback == "rollback"

CreateFailedPc == "done"

\* create_user lines 205-222 and onboard_user lines 407-416: users.post
\* answers.  The directory holds one account per principal name, so the
\* post cannot succeed while the name is taken.
CreateUser ==
  /\ pc = "create"
  /\ \E outcome \in {"ok", "api_error", "exception"} :
       LET upn == user_data.user_principal_name
           log == Append(calls, Call("users.post", user_id, upn, outcome))
       IN IF outcome = "ok"
          THEN /\ \A u \in directory : u.upn # upn
               /\ directory' = directory \cup {[id |-> user_id, upn |-> upn]}
               /\ result' = [result EXCEPT !.user_created = TRUE,
                                           !.temp_password = TempPassword(user_id)]
               /\ pc' = "settle"
               /\ calls' = log
          ELSE /\ directory' = directory
               /\ result' = [result EXCEPT !.errors = Append(@, "User creation failed")]
               /\ pc' = CreateFailedPc
               /\ calls' = log
  /\ UNCHANGED <<probe, credentials_file, sku_cache, batch, errors, locals, raised>>

\* onboard_user line 416: the settle sleep ends; assign_license starts
SettleDelay_Skipped ==
  /\ pc = "settle"
  /\ AssignLicenseBegin(result, calls)
  /\ UNCHANGED <<probe, credentials_file, sku_cache, directory, batch, errors>>

SettleDelay ==
  /\ pc = "settle"
  /\ AssignLicenseBegin(result, Append(calls, Call("sleep", settle_delay, "", "ok")))
  /\ UNCHANGED <<probe, credentials_file, sku_cache, directory, batch, errors>>

\* assign_license lines 258-273: assign_license.post answers
AssignLicensePost ==
  /\ pc = "license"
  /\ \E outcome \in {"ok", "api_error", "exception"} :
       LET log == Append(calls, Call("assign_license.post", user_id,
                                     Upper(user_data.license_type), outcome))
       IN CASE outcome = "ok" -> GroupsBegin(result, log)
            [] outcome = "api_error" ->
                 IF attempt < max_retries - 1
                 THEN /\ pc' = "backoff"
                      /\ calls' = log
                      /\ UNCHANGED <<result, locals, raised>>
                 ELSE LicenseFailed(result, log)
            [] outcome = "exception" -> LicenseFailed(result, log)
  /\ UNCHANGED <<probe, credentials_file, sku_cache, directory, batch, errors>>

\* assign_license line 267
NextRetryDelay_Constant(delay) == delay

NextRetryDelay(delay) == delay * 2

\* assign_license lines 266-267 and the next pass of the loop
Backoff ==
  /\ pc = "backoff"
  /\ AttemptBegin(result, Append(calls, Call("sleep", retry_delay, "", "ok")),
                  attempt + 1, NextRetryDelay(retry_delay))
  /\ UNCHANGED <<probe, credentials_file, sku_cache, directory, batch, errors>>

\* rollback_user_creation line 376: the account the delete is sent for
delete_target_Previous(uid) == uid - 1

delete_target_Other(uid) == 0

delete_target(uid) == uid

\* rollback_user_creation lines 375-379 and onboard_user line 431
RollbackUserCreation_Raises ==
  /\ pc = "rollback"
  /\ \E ok \in BOOLEAN :
       /\ directory' = IF ok THEN {u \in directory : u.id # user_id} ELSE directory
       /\ calls' = Append(calls, Call("users.delete", user_id, "",
                                      IF ok THEN "ok" ELSE "exception"))
       /\ pc' = IF ok THEN "done" ELSE "exit1"
       /\ raised' = IF ok THEN raised ELSE "Exception"
  /\ UNCHANGED <<probe, credentials_file, sku_cache, batch, result, errors, locals>>

RollbackUserCreation ==
  /\ pc = "rollback"
  /\ \E ok \in BOOLEAN :
       /\ directory' = IF ok THEN {u \in directory : u.id # delete_target(user_id)}
                       ELSE directory
       /\ calls' = Append(calls, Call("users.delete", delete_target(user_id), "",
                                      OkOrError(ok)))
  /\ pc' = "done"
  /\ UNCHANGED <<probe, credentials_file, sku_cache, batch, result, errors, locals, raised>>

\* add_to_groups line 288: the loop goes on to the next name whatever the
\* outcome for this one (continue at 299, handlers at 315-324)
MoreGroups_StopAtFailure(i, names, outcome) ==
  i < Len(names) /\ outcome \in {"ok", "already"}

MoreGroups(i, names, outcome) == i < Len(names)

\* What add_to_groups records for one name: lines 296-324
GroupRecorded_OkOnly(outcome) == outcome = "ok"

GroupRecorded_True(outcome) == TRUE

GroupRecorded(outcome) == outcome \in {"ok", "already"}

\* add_to_groups lines 288-326: the lookup and the add of one name answer.
\* "notfound": groups.get returns no match; "exception": groups.get raises;
\* "already", "api_error": members.ref.post raises APIError, with and
\* without "already exist" in its message.
AddToGroup ==
  /\ pc = "group"
  /\ \E outcome \in {"ok", "notfound", "already", "api_error", "exception"} :
       LET group_name == group_names[gi]
           looked == Append(calls, Call("groups.get", 0, group_name,
                                        IF outcome \in {"notfound", "exception"}
                                        THEN outcome ELSE "ok"))
           log == IF outcome \in {"ok", "already", "api_error"}
                  THEN Append(looked, Call("members.post", user_id, group_name,
                                           outcome))
                  ELSE looked
           res == Put(results, group_name, GroupRecorded(outcome))
       IN /\ calls' = log
          /\ IF MoreGroups(gi, group_names, outcome)
             THEN /\ gi' = gi + 1
                  /\ results' = res
                  /\ UNCHANGED <<pc, result, group_names>>
             ELSE /\ result' = [result EXCEPT !.groups_added = res]
                  /\ pc' = "mailbox"
                  /\ group_names' = <<>> /\ gi' = 0 /\ results' = EmptyDict
  /\ UNCHANGED <<probe, credentials_file, sku_cache, directory, batch, errors, attempt, retry_delay, raised>>

\* onboard_user lines 441-449
MailboxResult_Strict(res, configured) ==
  [res EXCEPT !.mailbox_configured = configured, !.success = configured]

MailboxResult(res, configured) ==
  [res EXCEPT !.mailbox_configured = configured, !.success = TRUE]

\* configure_mailbox lines 349-370 and onboard_user lines 441-456
ConfigureMailbox ==
  /\ pc = "mailbox"
  /\ \E outcome \in {"ok", "api_error", "exception"} :
       /\ calls' = Append(calls, Call("users.patch", user_id, "", outcome))
       /\ result' = MailboxResult(result, outcome = "ok")
  /\ pc' = "done"
  /\ UNCHANGED <<probe, credentials_file, sku_cache, directory, batch, errors, locals, raised>>

\* {**user_data, **result}
Merged(d, r) == [data |-> d, result |-> r]

\* process_csv lines 493-502 and 511: onboard_user returned
RecordResult_NoPause ==
  /\ pc = "done"
  /\ IF result.success
     THEN /\ successful_users' = Append(successful_users, [data |-> user_data, result |-> result])
          /\ failed_users' = failed_users
     ELSE /\ failed_users' = Append(failed_users, [data |-> user_data, result |-> result])
          /\ successful_users' = successful_users
  /\ IF idx < Len(users_data)
     THEN pc' = "onboard" /\ idx' = idx + 1
     ELSE pc' = "returned" /\ idx' = idx
  /\ UNCHANGED <<probe, credentials_file, sku_cache, directory, users_data, result, errors,
                 locals, calls, raised>>

RecordResult ==
  /\ pc = "done"
  /\ IF result.success
     THEN /\ successful_users' = Append(successful_users, Merged(user_data, result))
          /\ failed_users' = failed_users
     ELSE /\ failed_users' = Append(failed_users, Merged(user_data, result))
          /\ successful_users' = successful_users
  /\ pc' = IF idx < Len(users_data) THEN "pause" ELSE "returned"
  /\ UNCHANGED <<probe, credentials_file, sku_cache, directory, users_data, idx, result, errors, locals,
                 calls, raised>>

\* process_csv line 502: the pause between two records ends
InterRecordDelay ==
  /\ pc = "pause"
  /\ calls' = Append(calls, Call("sleep", inter_record_delay, "", "ok"))
  /\ idx' = idx + 1
  /\ pc' = "onboard"
  /\ UNCHANGED <<probe, credentials_file, sku_cache, directory, users_data, result, errors, locals,
                 successful_users, failed_users, raised>>

\* save_credentials lines 523-530: one row of the file
CredentialRow(user) ==
  [upn |-> user.result.upn, temp_password |-> user.result.temp_password]

\* main lines 571-599: process_csv returned; save_credentials writes the
\* file when there is a success to write
MainFinish ==
  /\ pc = "returned"
  /\ credentials_file' =
       IF successful_users # <<>>
       THEN [i \in DOMAIN successful_users |-> CredentialRow(successful_users[i])]
       ELSE credentials_file
  /\ pc' = "exit0"
  /\ UNCHANGED <<probe, sku_cache, directory, batch, result, errors, locals, calls, raised>>

Next ==
  \/ InitializeSkuCache
  \/ OnboardStart
  \/ ValidateDuplicateLookup
  \/ ValidateManagerLookup
  \/ CreateUser
  \/ SettleDelay
  \/ AssignLicensePost
  \/ Backoff
  \/ RollbackUserCreation
  \/ AddToGroup
  \/ ConfigureMailbox
  \/ RecordResult
  \/ InterRecordDelay
  \/ MainFinish

Spec == Init /\ [][Next]_vars

----------------------------------------------------------------------------
(* Vocabulary of the properties                                            *)

CallsOf(op) == {i \in DOMAIN calls : calls[i].op = op}
Issued(op) == CallsOf(op) # {}

\* onboard_user has returned its result for the record in flight
Returned == pc = "done"

\* the account made for the record in flight is in the directory
AccountExists == \E u \in directory : u.id = user_id

LicenseStepFailed == result.user_created /\ ~result.license_assigned

InSeq(x, s) == \E i \in DOMAIN s : s[i] = x

----------------------------------------------------------------------------
(* C1: in onboard_user, when the account was created and assign_license    *)
(* then returned false (retries exhausted or tier unresolved), the delete  *)
(* for that account is issued exactly once in the workflow, and the        *)
(* workflow ends with success == false.                                    *)
C1_RollbackExactlyOnce ==
  (Returned /\ LicenseStepFailed)
    => /\ Cardinality(CallsOf("users.delete")) = 1
       /\ \A i \in CallsOf("users.delete") : calls[i].n = user_id
       /\ ~result.success

C1_Witness ==
  /\ Returned /\ LicenseStepFailed
  /\ Cardinality(CallsOf("assign_license.post")) = max_retries

(* C2: every result onboard_user returns with success == true has          *)
(* user_created == true and license_assigned == true, whatever the record  *)
(* and the remote outcomes.                                                *)
C2_SuccessImpliesCreatedAndLicensed ==
  /\ result.success => result.user_created /\ result.license_assigned
  /\ \A i \in DOMAIN successful_users :
       /\ successful_users[i].result.user_created
       /\ successful_users[i].result.license_assigned

C2_Witness == Returned /\ result.success

(* C3 as stated: when the account was created and the license step failed, *)
(* no account of the record is in the directory once the workflow has      *)
(* terminated.                                                             *)
C3_NoAccountAfterFailure ==
  (Returned /\ LicenseStepFailed) => ~AccountExists

(* C3 as amended: when the account was created and the license step        *)
(* failed, the delete of that account has been issued when the workflow    *)
(* terminates, and the account is gone from the directory exactly when     *)
(* that delete succeeded; it remains when the delete itself failed.        *)
C3_DeleteIssuedAccountGoneIfDeleted ==
  (Returned /\ LicenseStepFailed)
    => /\ calls[Len(calls)].op = "users.delete"
       /\ calls[Len(calls)].n = user_id
       /\ AccountExists <=> (calls[Len(calls)].out # "ok")

C3_Witness ==
  /\ Returned /\ LicenseStepFailed
  /\ ~AccountExists
  /\ calls[Len(calls)].out = "ok"

(* C4: when validate_user_data reports the record invalid, onboard_user    *)
(* ends with success == false and user_created == false and issues no      *)
(* create, license, group-membership, mailbox or delete call; a principal  *)
(* name that the duplicate lookup finds in the directory is reported with  *)
(* the "already exists" error.                                             *)
C4_InvalidRecordHasNoSideEffects ==
  /\ (Returned /\ errors # <<>>)
       => /\ ~result.success /\ ~result.user_created
          /\ result.errors = errors
          /\ \A i \in DOMAIN calls :
               calls[i].op \notin {"users.post", "assign_license.post", "groups.get",
                                   "members.post", "users.patch", "users.delete"}
  /\ (Returned /\ calls[1].out = "ok"
        /\ \E u \in directory :
             u.id # user_id /\ u.upn = Get(user_data, "user_principal_name", ""))
       => InSeq("User already exists", errors)

C4_Witness ==
  /\ Returned
  /\ InSeq("User already exists", result.errors)

(* C5: when create_user fails (APIError or another exception), the         *)
(* workflow ends with success == false and user_created == false, the      *)
(* directory holds no account made for the record, and no license, group,  *)
(* mailbox or delete call is issued.                                       *)
C5_CreateFailureEndsWorkflow ==
  (Returned /\ \E i \in CallsOf("users.post") : calls[i].out # "ok")
    => /\ ~result.success /\ ~result.user_created
       /\ result.errors = <<"User creation failed">>
       /\ ~AccountExists
       /\ calls[Len(calls)].op = "users.post"

C5_Witness ==
  /\ Returned
  /\ \E i \in CallsOf("users.post") : calls[i].out = "api_error"

\* the calls of add_to_groups that failed: no match, a lookup that raised,
\* an add that raised without "already exist"
GroupFailures ==
  {i \in DOMAIN calls :
     \/ calls[i].op = "groups.get" /\ calls[i].out \in {"notfound", "exception"}
     \/ calls[i].op = "members.post" /\ calls[i].out \in {"api_error", "exception"}}

(* C6: after the license step succeeded, the failure of any of the         *)
(* requested groups leaves success true, triggers no delete, does not keep *)
(* the mailbox call from being made, and is recorded as false in           *)
(* groups_added.                                                           *)
C6_GroupFailuresAreBestEffort ==
  (Returned /\ GroupFailures # {})
    => /\ result.success
       /\ ~Issued("users.delete")
       /\ Issued("users.patch")
       /\ AccountExists
       /\ \A i \in GroupFailures :
            (\A j \in DOMAIN calls : j > i => calls[j].s # calls[i].s)
              => /\ calls[i].s \in DOMAIN result.groups_added
                 /\ ~result.groups_added[calls[i].s]

C6_Witness ==
  /\ Returned /\ GroupFailures # {}
  /\ \E g \in DOMAIN result.groups_added : result.groups_added[g]
  /\ \E g \in DOMAIN result.groups_added : ~result.groups_added[g]

(* C7: once the mailbox step has completed, with its update succeeded or   *)
(* failed, the workflow ends with success == true; a failed update shows   *)
(* only as mailbox_configured == false, and no delete is issued.           *)
C7_MailboxCompletionMeansSuccess ==
  (Returned /\ Issued("users.patch"))
    => /\ result.success
       /\ result.mailbox_configured <=> (calls[Len(calls)].out = "ok")
       /\ calls[Len(calls)].op = "users.patch"
       /\ result.errors = <<>>
       /\ ~Issued("users.delete")
       /\ AccountExists

C7_Witness ==
  /\ Returned /\ Issued("users.patch")
  /\ calls[Len(calls)].out = "api_error"
  /\ ~result.mailbox_configured

(* C8: in every result onboard_user returns, errors is non-empty when      *)
(* success == false and empty when success == true.                        *)
C8_ErrorsIffFailure ==
  /\ Returned => (result.success <=> result.errors = <<>>)
  /\ \A i \in DOMAIN successful_users : successful_users[i].result.errors = <<>>
  /\ \A i \in DOMAIN failed_users : failed_users[i].result.errors # <<>>

C8_Witness ==
  /\ Returned /\ ~result.success
  /\ result.user_created /\ result.license_assigned

(* C9: onboard_user never raises, for any record (missing or empty columns *)
(* included) and any outcome of the remote calls: every failure of a       *)
(* record comes back as result data and cannot abort the batch.            *)
C9_OnboardNeverRaises == raised = Null

\* the rows of users_data at the indices of S, in input order
RECURSIVE RowsAt(_, _, _)
RowsAt(rows, S, i) ==
  IF i > Len(rows) THEN <<>>
  ELSE (IF i \in S THEN <<rows[i]>> ELSE <<>>) \o RowsAt(rows, S, i + 1)

DataOf(merged) == [i \in DOMAIN merged |-> merged[i].data]

\* process_csv is over: it returned, or its exception reached main
BatchOver == pc \in {"returned", "exit0"} \/ (pc = "exit1" /\ sku_cache.initialized)

(* C10: process_csv puts every input record in exactly one of its two      *)
(* lists, in successes iff its result has success == true, each list in    *)
(* input order, and a failed record never keeps the records after it from  *)
(* being processed.                                                        *)
C10_EveryRecordPartitioned ==
  BatchOver =>
    /\ \A i \in DOMAIN successful_users : successful_users[i].result.success
    /\ \A i \in DOMAIN failed_users : ~failed_users[i].result.success
    /\ \E S \in SUBSET (1..Len(users_data)) :
         /\ DataOf(successful_users) = RowsAt(users_data, S, 1)
         /\ DataOf(failed_users) = RowsAt(users_data, (1..Len(users_data)) \ S, 1)

----------------------------------------------------------------------------
\* the workflow of the record in flight is between its first await and the
\* return of its result
InWorkflow ==
  pc \in {"v_dup", "v_mgr", "create", "settle", "license", "backoff",
          "rollback", "group", "mailbox", "done"}

\* main is past initialize_sku_cache, and the fetch of the SKUs had raised
SkuFetchFailed == pc # "main" /\ ~sku_cache.initialized

(* C11: when the SKU fetch of initialize_sku_cache errors, the error        *)
(* reaches main, no record's workflow is started (no lookup, no create     *)
(* call, for any record) and the process exits with a non-zero code.       *)
C11_SkuFetchErrorAbortsRun ==
  SkuFetchFailed
    => /\ pc = "exit1"
       /\ idx = 0
       /\ calls = <<>>
       /\ result = NoResult
       /\ directory = {AdminAccount}
       /\ successful_users = <<>> /\ failed_users = <<>>
       /\ credentials_file = <<>>

C11_Witness ==
  /\ SkuFetchFailed
  /\ pc = "exit1"
  /\ Len(users_data) > 0

(* C12: for a record whose license tier is "NONE" in any letter case,       *)
(* assign_license issues no license-assignment call, looks no SKU up (an   *)
(* empty cache, on which the lookup raises, makes no difference), sleeps   *)
(* for no backoff, and returns true.                                       *)
C12_NoneTierIsNoOp ==
  (InWorkflow /\ Upper(Get(user_data, "license_type", "")) = "NONE")
    => /\ pc \notin {"license", "backoff", "rollback"}
       /\ ~Issued("assign_license.post")
       /\ \A i \in CallsOf("sleep") :
            calls[i].n = settle_delay /\ calls[i - 1].op = "users.post"
       /\ Cardinality(CallsOf("sleep")) <= 1
       /\ (Issued("sleep") /\ pc # "create") => result.license_assigned
       /\ Returned /\ result.user_created =>
            ~InSeq("License assignment failed", result.errors)

C12_Witness ==
  /\ Returned
  /\ user_data.license_type = "none"
  /\ DOMAIN sku_cache.map = {}
  /\ result.user_created /\ result.license_assigned

\* call i is the pause of process_csv after the workflow returned
IsPause(i) == pc = "onboard" /\ i = Len(calls)

\* the assign_license.post calls of the workflow in flight before call i
PostsBefore(i) == {j \in CallsOf("assign_license.post") : j < i}

(* C13: for a resolved SKU assign_license makes at most 3 attempts and     *)
(* stops at the first that succeeds; it sleeps 2 s after the first failed  *)
(* attempt and 4 s after the second, and not after the third; when all 3   *)
(* attempts fail with an APIError the step returns false.                  *)
C13_ThreeAttemptsWithBackoff ==
  /\ Cardinality(CallsOf("assign_license.post")) <= max_retries
  /\ \A i \in CallsOf("assign_license.post") :
       LET k == Cardinality(PostsBefore(i)) + 1
       IN /\ calls[i].out = "ok" => \A j \in CallsOf("assign_license.post") : j <= i
          /\ (calls[i].out = "api_error" /\ i < Len(calls))
               => IF k < max_retries
                  THEN /\ calls[i + 1].op = "sleep"
                       /\ calls[i + 1].n = (IF k = 1 THEN 2 ELSE 4)
                       /\ i + 1 < Len(calls) => calls[i + 2].op = "assign_license.post"
                  ELSE calls[i + 1].op = "users.delete"
          /\ (calls[i].out = "api_error" /\ i = Len(calls))
               => IF k < max_retries
                  THEN pc = "backoff"
                  ELSE pc = "rollback" /\ ~result.license_assigned
  /\ \A i \in CallsOf("sleep") :
       \/ IsPause(i)
       \/ calls[i - 1].op = "users.post" /\ calls[i].n = settle_delay
       \/ /\ calls[i - 1].op = "assign_license.post"
          /\ calls[i - 1].out = "api_error"
          /\ Cardinality(PostsBefore(i)) < max_retries
          /\ calls[i].n = (IF Cardinality(PostsBefore(i)) = 1 THEN 2 ELSE 4)
  /\ (Returned /\ Cardinality(CallsOf("assign_license.post")) = max_retries
        /\ \A i \in CallsOf("assign_license.post") : calls[i].out = "api_error")
       => ~result.license_assigned /\ ~result.success

C13_Witness ==
  /\ Returned
  /\ Cardinality(CallsOf("assign_license.post")) = max_retries
  /\ \A i \in CallsOf("assign_license.post") : calls[i].out = "api_error"
  /\ \E i, j \in CallsOf("sleep") :
       /\ i < j /\ calls[i].n = 2 /\ calls[j].n = 4
       /\ calls[i - 1].op = "assign_license.post"
       /\ calls[j - 1].op = "assign_license.post"
  /\ ~result.license_assigned

\* validate_user_data has just ended for the record in flight: its last
\* lookup answered and nothing has been awaited since
ValidateJustEnded ==
  /\ calls # <<>>
  /\ \A i \in DOMAIN calls : calls[i].op \in {"users.get", "users.get(filter)"}
  /\ pc \in {"create", "done", "exit1"}

(* C14: validate_user_data never raises: for every record, fields present, *)
(* empty or absent, and whether its lookups succeed or error, it returns a *)
(* pair (valid, errors) to onboard_user.                                   *)
C14_ValidateNeverRaises ==
  ValidateJustEnded
    => /\ raised = Null
       /\ pc \in {"create", "done"}
       /\ pc = "done" => result.errors = errors

\* the defects validate_user_data is to report for the record in flight,
\* read from the record, the directory and the answers of its lookups; a
\* defect a lookup would show counts when that lookup answered
Defects ==
  LET d == user_data
      upn == Get(d, "user_principal_name", "")
      manager_email == Get1(d, "manager_email")
      tier == Get(d, "license_type", "")
  IN {MissingError(required_fields[k]) : k \in {j \in DOMAIN required_fields :
                                                ~Truthy(Get1(d, required_fields[j]))}}
     \cup {e \in {"Invalid UPN format"} : Truthy(upn) /\ ~HasAt(upn)}
     \cup {e \in {"User already exists"} :
             /\ \E i \in CallsOf("users.get") : calls[i].out = "ok"
             /\ \E u \in directory : u.upn = upn}
     \cup {e \in {"Manager not found"} :
             /\ \E i \in CallsOf("users.get(filter)") : calls[i].out = "ok"
             /\ ~\E u \in directory : u.upn = manager_email}
     \cup {e \in {"Invalid license type"} :
             tier # Null /\ Upper(tier) \notin DOMAIN LICENSE_SKU_MAPPING}

(* C15: validate_user_data does not short-circuit: the list it returns     *)
(* holds an entry for every defect the record has (each missing required   *)
(* field, principal name without '@', principal name in use, manager that  *)
(* resolves to no principal, unrecognized tier), and valid is true iff the *)
(* list is empty.                                                          *)
C15_AllDefectsReported ==
  ValidateJustEnded
    => /\ pc \in {"create", "done"}
       /\ \A e \in Defects : InSeq(e, errors)
       /\ \A i \in DOMAIN errors : errors[i] \in Defects
       /\ pc = "create" <=> errors = <<>>

\* C15 fails on no record but those on which C14 fails
C15_ButForTheRaise == raised # Null \/ C15_AllDefectsReported

\* the names onboard_user hands to add_to_groups for the record in flight
GroupNamesOf(d) == StripNonEmpty(SplitSemi(Strip(Get(d, "groups", ""))))

\* add_to_groups has returned for the record in flight
GroupsDone ==
  /\ pc \in {"mailbox", "done"}
  /\ result.license_assigned
  /\ Get(user_data, "groups", "") # Null

\* the number of group lookups up to call i
LookupsUpTo(i) == Cardinality({j \in CallsOf("groups.get") : j <= i})

(* C16: for a non-empty list of names add_to_groups returns a map whose    *)
(* key set is exactly the set of the names; a lookup miss or error for one *)
(* name never prevents the lookup and the add attempt for a later name:    *)
(* every name is looked up, in order, and every lookup that finds the      *)
(* group is followed by the add for that name.                             *)
C16_EveryGroupNameProcessed ==
  /\ \A i \in {j \in CallsOf("groups.get") : InWorkflow} :
       /\ LookupsUpTo(i) <= Len(GroupNamesOf(user_data))
       /\ calls[i].s = GroupNamesOf(user_data)[LookupsUpTo(i)]
       /\ calls[i].out = "ok"
            => /\ i < Len(calls)
               /\ calls[i + 1].op = "members.post"
               /\ calls[i + 1].s = calls[i].s
  /\ (GroupsDone /\ GroupNamesOf(user_data) # <<>>)
       => /\ Cardinality(CallsOf("groups.get")) = Len(GroupNamesOf(user_data))
          /\ DOMAIN result.groups_added =
               {GroupNamesOf(user_data)[k] : k \in DOMAIN GroupNamesOf(user_data)}

C16_Witness ==
  /\ GroupsDone
  /\ Len(GroupNamesOf(user_data)) = 2
  /\ \E i, j \in CallsOf("groups.get") :
       /\ i < j
       /\ calls[i].out \in {"notfound", "exception"}
       /\ calls[j].out = "ok"
       /\ calls[i].s # calls[j].s
  /\ Cardinality(DOMAIN result.groups_added) = 2

\* the last lookup of a name by add_to_groups
LastLookup(name) ==
  CHOOSE i \in CallsOf("groups.get") :
    /\ calls[i].s = name
    /\ \A j \in CallsOf("groups.get") : calls[j].s = name => j <= i

(* C17: an APIError of the add-member call that says the user already is a *)
(* member is recorded as true for that group, as a successful add is, so   *)
(* adding a user a second time gives the map of the first time; any other  *)
(* APIError of the add-member call is recorded as false.                   *)
C17_AlreadyMemberIsSuccess ==
  GroupsDone
    => \A name \in DOMAIN result.groups_added :
         LET i == LastLookup(name)
         IN calls[i].out = "ok"
              => /\ calls[i + 1].out \in {"ok", "already"} => result.groups_added[name]
                 /\ calls[i + 1].out = "api_error" => ~result.groups_added[name]

C17_Witness ==
  /\ GroupsDone
  /\ GroupNamesOf(user_data) = <<"g1", "g1">>
  /\ \E i, j \in CallsOf("members.post") :
       i < j /\ calls[i].out = "ok" /\ calls[j].out = "already"
  /\ result.groups_added = [n \in {"g1"} |-> TRUE]

----------------------------------------------------------------------------
(* get_sku_id on its own: the cache is an input, each step is one call     *)

\* the part numbers a tenant may hold among those LICENSE_SKU_MAPPING names
TenantParts == {"SPE_E3", "SPE_E5", "INTUNE_A_D"}

\* the tier strings get_sku_id is called with
SkuTiers == {"E3", "e3", "E5", "INTUNE", "NONE", "none", "xx"}

\* no call of get_sku_id made yet
NoLookup == [tier |-> Null, ret |-> Null]

\* the variables of the batch, at rest while a function is called on its own
BatchIdle ==
  /\ directory = {AdminAccount}
  /\ users_data = <<>>
  /\ idx = 0
  /\ result = NoResult
  /\ errors = <<>>
  /\ attempt = 0 /\ retry_delay = 0
  /\ group_names = <<>> /\ gi = 0 /\ results = EmptyDict
  /\ calls = <<>>
  /\ successful_users = <<>> /\ failed_users = <<>>
  /\ raised = Null
  /\ credentials_file = <<>>

SkuInit ==
  /\ pc = "get_sku_id"
  /\ sku_cache \in {[initialized |-> FALSE, map |-> EmptyDict]}
                     \cup {BuildSkuCache(skus) : skus \in SUBSET TenantParts}
  /\ probe = [fn |-> "get_sku_id", last |-> NoLookup, prev |-> NoLookup]
  /\ BatchIdle

\* one call of get_sku_id; the call before it is kept for comparison
SkuLookup ==
  /\ pc = "get_sku_id"
  /\ \E license_type \in SkuTiers :
       probe' = [probe EXCEPT
                   !.prev = probe.last,
                   !.last = [tier |-> license_type,
                             ret |-> get_sku_id(sku_cache, license_type)]]
  /\ UNCHANGED <<pc, sku_cache, directory, users_data, idx, result, errors, locals,
                 calls, successful_users, failed_users, raised, credentials_file>>

SkuNext == SkuLookup

SkuSpec == SkuInit /\ [][SkuNext]_vars

\* the tier names a part number the cache holds
Resolves(tier, cache) ==
  /\ Upper(tier) \in {"E3", "E5", "INTUNE"}
  /\ LICENSE_SKU_MAPPING[Upper(tier)] \in DOMAIN cache.map

IsNoneTier(tier) == Upper(tier) = "NONE"

\* the two calls the probe holds, made on a cache that holds SKUs: one for
\* the NONE tier, one for a tier that is unmapped
NoneAndUnmapped(a, b) ==
  /\ DOMAIN sku_cache.map # {}
  /\ a.tier # Null /\ b.tier # Null
  /\ IsNoneTier(a.tier)
  /\ ~IsNoneTier(b.tier) /\ ~Resolves(b.tier, sku_cache)

(* C18 as stated: the lookup returns the no-license value for the NONE     *)
(* tier, and for an unmapped tier (unknown, or known with its SKU absent   *)
(* from the tenant) an outcome a caller can tell apart from the NONE one.  *)
C18_UnmappedDistinctFromNone ==
  \A a, b \in {probe.last, probe.prev} :
    NoneAndUnmapped(a, b)
      => /\ ~a.ret.raised /\ a.ret.value = Null
         /\ b.ret # a.ret

(* C18, amended: on a non-empty cache get_sku_id never raises; it returns  *)
(* the tenant's identifier exactly when the tier, in any letter case,      *)
(* names a part number the cache holds, and None otherwise, for the NONE   *)
(* tier and for an unmapped tier alike; on an empty or uninitialized cache *)
(* it raises for every tier.                                               *)
C18_NoneAndUnmappedBothNone ==
  \A a \in {probe.last, probe.prev} :
    a.tier # Null
      => IF ~sku_cache.initialized \/ DOMAIN sku_cache.map = {}
         THEN a.ret.raised
         ELSE /\ ~a.ret.raised
              /\ Resolves(a.tier, sku_cache)
                   => a.ret.value = SkuId(LICENSE_SKU_MAPPING[Upper(a.tier)])
              /\ ~Resolves(a.tier, sku_cache) => a.ret.value = Null

C18_Witness ==
  /\ DOMAIN sku_cache.map = {"SPE_E3"}
  /\ probe.prev.tier = "none" /\ probe.last.tier = "E5"
  /\ probe.prev.ret = probe.last.ret
  /\ ~probe.last.ret.raised /\ probe.last.ret.value = Null

----------------------------------------------------------------------------
\* main is over after a batch was run
RunOver == pc = "exit0" \/ (pc = "exit1" /\ sku_cache.initialized)

\* the row the credentials file is to hold for a record that succeeded
ExpectedRow(user) ==
  [upn |-> user.data.user_principal_name,
   temp_password |-> user.result.temp_password]

(* C19: after a batch the credentials output holds one row per record      *)
(* whose workflow ended with success == true, carrying its principal name  *)
(* and the temporary password sent in its create call, and no row for a    *)
(* record whose workflow ended with success == false.                      *)
C19_OneCredentialRowPerSuccess ==
  RunOver
    => /\ Len(credentials_file) = Len(successful_users)
       /\ \A i \in DOMAIN successful_users :
            /\ credentials_file[i] = ExpectedRow(successful_users[i])
            /\ \E k \in DOMAIN users_data :
                 /\ users_data[k] = successful_users[i].data
                 /\ credentials_file[i].temp_password = TempPassword(k)
       /\ \A j \in DOMAIN failed_users :
            ~\E i \in DOMAIN credentials_file :
               credentials_file[i].temp_password = failed_users[j].result.temp_password

\* C19 fails on no batch but those in which onboard_user raises (C9)
C19_ButForTheRaise == raised # Null \/ C19_OneCredentialRowPerSuccess

----------------------------------------------------------------------------
(* generate_password on its own: each step draws one character, or tests   *)
(* the candidate once it is complete                                       *)

default_length == 16

\* a sample of string.ascii_letters + string.digits + "!@#$%^&*"
Lowercase == {"a", "z"}
Uppercase == {"A", "Z"}
Digits == {"0", "9"}
Symbols == {"!", "*"}
alphabet == Lowercase \cup Uppercase \cup Digits \cup Symbols

\* lines 113-116: the test a candidate has to pass; chars is the set of
\* the characters of the candidate
MeetsComplexity_NoSymbol(chars) ==
  /\ \E c \in chars : c \in {"a", "z"}
  /\ \E c \in chars : c \in {"A", "Z"}
  /\ \E c \in chars : c \in {"0", "9"}

MeetsComplexity(chars) ==
  /\ \E c \in chars : c \in Lowercase
  /\ \E c \in chars : c \in Uppercase
  /\ \E c \in chars : c \in Digits
  /\ \E c \in chars : c \in Symbols

PwInit ==
  /\ pc = "generate_password"
  /\ sku_cache = [initialized |-> FALSE, map |-> EmptyDict]
  /\ probe = [fn |-> "generate_password", length |-> default_length,
              n |-> 0, chars |-> {}, returned |-> FALSE, rejected |-> FALSE]
  /\ BatchIdle

\* line 111: secrets.choice(alphabet) gives the next character
PwChoice ==
  /\ pc = "generate_password"
  /\ ~probe.returned
  /\ probe.n < probe.length
  /\ \E c \in alphabet :
       probe' = [probe EXCEPT !.n = @ + 1, !.chars = @ \cup {c}]
  /\ UNCHANGED <<pc, sku_cache, directory, users_data, idx, result, errors, locals,
                 calls, successful_users, failed_users, raised, credentials_file>>

\* lines 113-117: the complete candidate passes the test and is returned
PwReturn ==
  /\ pc = "generate_password"
  /\ ~probe.returned
  /\ probe.n = probe.length
  /\ MeetsComplexity(probe.chars)
  /\ probe' = [probe EXCEPT !.returned = TRUE]
  /\ UNCHANGED <<pc, sku_cache, directory, users_data, idx, result, errors, locals,
                 calls, successful_users, failed_users, raised, credentials_file>>

\* lines 110-113: the complete candidate fails the test; the loop draws anew
PwReject ==
  /\ pc = "generate_password"
  /\ ~probe.returned
  /\ probe.n = probe.length
  /\ ~MeetsComplexity(probe.chars)
  /\ probe' = [probe EXCEPT !.n = 0, !.chars = {}, !.rejected = TRUE]
  /\ UNCHANGED <<pc, sku_cache, directory, users_data, idx, result, errors, locals,
                 calls, successful_users, failed_users, raised, credentials_file>>

PwNext == PwChoice \/ PwReturn \/ PwReject

PwSpec == PwInit /\ [][PwNext]_vars

(* C20: every password generate_password returns with the default length   *)
(* has length >= 16 and holds at least one lowercase letter, one uppercase *)
(* letter, one digit and one symbol of !@#$%^&*; a complete candidate that *)
(* lacks a class is not returned, and a new one is drawn from scratch.     *)
C20_PasswordMeetsComplexity ==
  /\ probe.returned
       => /\ probe.n >= 16
          /\ probe.chars \cap {"a", "z"} # {}
          /\ probe.chars \cap {"A", "Z"} # {}
          /\ probe.chars \cap {"0", "9"} # {}
          /\ probe.chars \cap {"!", "*"} # {}
  /\ probe.n <= probe.length
  /\ Cardinality(probe.chars) <= probe.n

C20_Witness ==
  /\ probe.returned
  /\ probe.rejected
  /\ probe.n = 16
  /\ Cardinality(probe.chars) = 4

----------------------------------------------------------------------------
\* the step of onboard_user that call i of the workflow in flight belongs
\* to: 1 validation, 2 create, 3 settle delay, 4 license assignment,
\* 5 group assignment or rollback, 6 mailbox configuration
StepOf(i) ==
  CASE calls[i].op \in {"users.get", "users.get(filter)"} -> 1
    [] calls[i].op = "users.post" -> 2
    [] calls[i].op = "sleep" ->
         IF i > 1 /\ calls[i - 1].op = "users.post" THEN 3 ELSE 4
    [] calls[i].op = "assign_license.post" -> 4
    [] calls[i].op \in {"groups.get", "members.post", "users.delete"} -> 5
    [] calls[i].op = "users.patch" -> 6

(* C21: within one record's workflow the steps come in the order           *)
(* validation, create, settle delay, license assignment, group assignment, *)
(* mailbox configuration: no call of a step is issued before the calls of  *)
(* the steps before it, and the settle delay lies between the successful   *)
(* create and the first license-assignment call.                           *)
C21_StepsInFixedOrder ==
  InWorkflow
    => /\ \A i, j \in DOMAIN calls : i < j => StepOf(i) <= StepOf(j)
       /\ Cardinality(CallsOf("users.post")) <= 1
       /\ Cardinality(CallsOf("users.patch")) <= 1
       /\ \A i \in CallsOf("users.post") :
            IF calls[i].out = "ok"
            THEN /\ pc = "settle" <=> i = Len(calls)
                 /\ i < Len(calls)
                      => calls[i + 1].op = "sleep" /\ calls[i + 1].n = settle_delay
            ELSE i = Len(calls) /\ pc = "done"
       /\ \A i \in DOMAIN calls :
            StepOf(i) > 3
              => \E c, s \in DOMAIN calls :
                   /\ c < s /\ s < i
                   /\ calls[c].op = "users.post" /\ calls[c].out = "ok"
                   /\ StepOf(s) = 3
       /\ pc \in {"v_dup", "v_mgr", "create"}
            => \A i \in DOMAIN calls : StepOf(i) = 1
       /\ pc \in {"license", "backoff"} => \A i \in DOMAIN calls : StepOf(i) <= 4
       /\ pc \in {"group", "mailbox"}
            => \A i \in DOMAIN calls : StepOf(i) <= 5 /\ calls[i].op # "users.delete"

C21_Witness ==
  /\ Returned /\ result.success
  /\ Issued("users.get") /\ Issued("users.post") /\ Issued("assign_license.post")
  /\ Issued("groups.get") /\ Issued("members.post") /\ Issued("users.patch")
  /\ \E i \in CallsOf("sleep") : StepOf(i) = 3

\* the records process_csv has put in one of its lists
Handled == Len(successful_users) + Len(failed_users)

\* the last await was the pause of process_csv between two records
AfterPause ==
  /\ calls # <<>>
  /\ calls[Len(calls)].op = "sleep"
  /\ calls[Len(calls)].n = inter_record_delay

(* C22: the batch is strictly serial: the workflow of record i + 1 starts, *)
(* and its first remote call is issued, only after the workflow of record  *)
(* i has returned, its result has been filed and the inter-record delay    *)
(* has elapsed; the delay is inserted between consecutive records only.    *)
C22_BatchIsSerial ==
  /\ (InWorkflow \/ pc = "onboard") => Handled = idx - 1
  /\ pc = "pause" => Handled = idx /\ idx < Len(users_data) /\ ~AfterPause
  /\ (pc = "onboard" /\ idx > 1) => AfterPause
  /\ (pc = "onboard" /\ idx = 1) => calls = <<>>
  /\ InWorkflow => ~AfterPause
  /\ pc \in {"returned", "exit0"} => Handled = Len(users_data) /\ ~AfterPause
  /\ \A u \in directory : u.id <= idx

C22_Witness ==
  /\ pc = "v_mgr"
  /\ idx = 2
  /\ Handled = 1
  /\ Len(calls) = 1

\* the license step of the record in flight has been entered with a tier
\* that is not NONE and that the cache does not resolve
UnresolvedTierInLicenseStep ==
  /\ InWorkflow
  /\ \E i \in CallsOf("sleep") : StepOf(i) = 3
  /\ ~IsNoneTier(user_data.license_type)
  /\ ~Resolves(user_data.license_type, sku_cache)

(* C23: when the tier is not resolved to a SKU identifier (the lookup      *)
(* returns None, or raises), assign_license returns false on its first     *)
(* pass with no license-assignment call and no backoff sleep: the other    *)
(* passes of the retry loop are skipped.                                   *)
C23_UnresolvedTierFailsAtOnce ==
  UnresolvedTierInLicenseStep
    => /\ pc \in {"rollback", "done"}
       /\ ~Issued("assign_license.post")
       /\ Cardinality(CallsOf("sleep")) = 1
       /\ ~result.license_assigned /\ ~result.success
       /\ result.errors = <<"License assignment failed">>
       /\ attempt = 0

C23_Witness ==
  /\ UnresolvedTierInLicenseStep
  /\ Returned
  /\ user_data.license_type = "E5"
  /\ DOMAIN sku_cache.map = {"SPE_E3"}
  /\ Issued("users.delete")

\* the same on a tenant without SKUs, where the lookup raises
C23_WitnessEmptyCache ==
  /\ UnresolvedTierInLicenseStep
  /\ Returned
  /\ DOMAIN sku_cache.map = {}
  /\ user_data.license_type = "E3"

\* the compensating delete of the workflow whose calls are held has errored
DeleteFailed == \E i \in CallsOf("users.delete") : calls[i].out = "exception"

(* C24: when the compensating delete itself errors, rollback_user_creation *)
(* does not raise and does not retry: the workflow ends with success ==    *)
(* false and errors == ["License assignment failed"], no second delete and *)
(* no other call is issued in it, and the batch goes on: the record is     *)
(* filed as failed and the next record, if any, is processed.              *)
C24_FailedRollbackIsOnlyLogged ==
  DeleteFailed
    => /\ raised = Null
       /\ pc \in {"done", "pause", "returned", "exit0", "onboard"}
       /\ Cardinality(CallsOf("users.delete")) = 1
       /\ \A i \in CallsOf("users.delete") :
            \A j \in DOMAIN calls : j > i => (pc = "onboard" /\ IsPause(j))
       /\ ~result.success
       /\ result.errors = <<"License assignment failed">>
       /\ pc # "done"
            => /\ failed_users # <<>>
               /\ failed_users[Len(failed_users)].result = result

C24_Witness ==
  /\ DeleteFailed
  /\ pc = "onboard"
  /\ idx = 2
  /\ \E u \in directory : u.id = 1
  /\ failed_users[1].result.errors = <<"License assignment failed">>

\* main has stopped: no step of the program is left to take
Stopped == ~ENABLED Next

(* C25: provided every remote call returns, every record's workflow        *)
(* reaches a returned result and process_csv terminates after every record *)
(* has been handled: when the program has stopped, either the SKU fetch    *)
(* had failed or every record has a result in one of the two lists; and    *)
(* the license retry loop makes at most 3 passes.                          *)
C25_EveryWorkflowReturns ==
  /\ attempt < max_retries
  /\ Stopped
       => \/ SkuFetchFailed
          \/ pc = "exit0" /\ Handled = Len(users_data)

\* what is left to do: the records after the one in flight, then the steps
\* of the one in flight
StepsLeft ==
  CASE pc = "main" -> 63
    [] pc = "onboard" -> 30
    [] pc = "v_dup" -> 29
    [] pc = "v_mgr" -> 28
    [] pc = "create" -> 27
    [] pc = "settle" -> 26
    [] pc = "license" -> 25 - 2 * attempt
    [] pc = "backoff" -> 24 - 2 * attempt
    [] pc = "rollback" -> 15
    [] pc = "group" -> 14 - gi
    [] pc = "mailbox" -> 5
    [] pc = "done" -> 4
    [] pc = "pause" -> 3
    [] pc = "returned" -> 2
    [] pc = "exit0" -> 1
    [] OTHER -> 0

Measure == (Len(users_data) - idx) * 64 + StepsLeft

\* every step of the program brings it nearer to its end: no workflow
\* loops forever, whether it returns or raises
C25_EveryStepProgresses ==
  [][Measure' < Measure /\ Measure' >= 0]_vars

\* C25 fails on no batch but those in which onboard_user raises (C9)
C25_ButForTheRaise == raised # Null \/ C25_EveryWorkflowReturns

(* C26: for every record and every outcome of the steps after creation,    *)
(* an unexpected exception in the license, group or mailbox step included: *)
(* a workflow that ends with user_created == true and success == false has *)
(* issued the delete for the created account.                              *)
C26_FailedRecordIsRolledBack ==
  (Returned /\ result.user_created /\ ~result.success)
    => \E i \in CallsOf("users.delete") : calls[i].n = user_id

\* C26 fails on no record but those whose groups value is None
C26_ButForGroupsNone ==
  Returned => (Get(user_data, "groups", "") = Null \/ C26_FailedRecordIsRolledBack)

\* the answer of the duplicate lookup of the record in flight
DuplicateLookupAnswered == \E i \in CallsOf("users.get") : calls[i].out = "ok"

(* C27: across a batch and for every outcome of the lookups, the create    *)
(* call of a record is issued only if no account with its principal name   *)
(* exists at that moment, accounts made by earlier records of the batch    *)
(* included; so two records with one principal name never both have an     *)
(* account.  A create call that did not make an account leaves the         *)
(* directory as it was when the call was issued.                           *)
C27_CreateOnlyForFreeName ==
  /\ InWorkflow
       => \A i \in CallsOf("users.post") :
            calls[i].out # "ok" => ~\E u \in directory : u.upn = calls[i].s
  /\ \A u, v \in directory : u.upn = v.upn => u = v

\* C27 fails on no record but those whose duplicate lookup errored
C27_ButForTheLookupError ==
  (InWorkflow /\ DuplicateLookupAnswered) => C27_CreateOnlyForFreeName

\* the tier of the record in flight is one of E3, E5, INTUNE and the tenant
\* does not hold its SKU
TierAbsentFromTenant ==
  /\ InWorkflow
  /\ Get(user_data, "license_type", "") # Null
  /\ Upper(user_data.license_type) \in {"E3", "E5", "INTUNE"}
  /\ ~Resolves(user_data.license_type, sku_cache)

(* C28: no account is created for a record whose tier cannot be resolved   *)
(* in the tenant: a record with a recognized license-bearing tier whose    *)
(* SKU part number is absent from the cache is rejected before the create  *)
(* call is issued, not created and rolled back.                            *)
C28_UnresolvableTierIsRejected ==
  TierAbsentFromTenant
    => /\ ~Issued("users.post")
       /\ ~Issued("users.delete")
       /\ ~result.user_created
       /\ pc \in {"v_dup", "v_mgr", "done"}

(* C29: after initialize_sku_cache completed without error, get_sku_id     *)
(* never raises its "SKU cache not initialized" error, for any tier string *)
(* and whatever the tenant returned, a tenant without SKUs included: it    *)
(* returns an identifier or None.                                          *)
C29_NoRaiseOnceInitialized ==
  \A a \in {probe.last, probe.prev} :
    (a.tier # Null /\ sku_cache.initialized) => ~a.ret.raised

\* C29 fails on no tenant but the one without SKUs
C29_ButForTheEmptyTenant ==
  DOMAIN sku_cache.map = {} \/ C29_NoRaiseOnceInitialized

(* C30: the delete call is issued only as rollback of the same workflow:   *)
(* it targets the account made by that workflow's own create call, it is   *)
(* issued only after assign_license returned false, never in a workflow    *)
(* that ends with success == true and never for an account made by another *)
(* record.                                                                 *)
C30_DeleteOnlyAsOwnRollback ==
  /\ InWorkflow
       => \A i \in CallsOf("users.delete") :
            /\ calls[i].n = user_id
            /\ \E c \in CallsOf("users.post") :
                 c < i /\ calls[c].out = "ok" /\ calls[c].n = calls[i].n
            /\ result.user_created /\ ~result.license_assigned
            /\ InSeq("License assignment failed", result.errors)
            /\ ~result.success
  /\ AdminAccount \in directory
  /\ \A j \in DOMAIN successful_users :
       \E u \in directory : u.upn = successful_users[j].result.upn

C30_Witness ==
  /\ Returned
  /\ idx = 2
  /\ successful_users # <<>>
  /\ \E i \in CallsOf("users.delete") : calls[i].out = "ok" /\ calls[i].n = 2
  /\ \E u \in directory : u.id = 1
  /\ ~\E u \in directory : u.id = 2

====
